---- MODULE Spec2Model ----
(***************************************************************************)
(* A model of the sitemapper library: the URL normaliser, the link         *)
(* extractor, the crawl engine (crawler.crawl / crawler.getLinks) and the  *)
(* scheduling goroutine started by NewSiteMapper.                          *)
(*                                                                         *)
(* Strings are sequences of one-character strings, so that prefix tests,   *)
(* trimming and URL parsing are computed character by character.           *)
(***************************************************************************)
EXTENDS Integers, Sequences, FiniteSets, TLC

(***************************************************************************)
(* Part 1.  Strings (package strings)                                      *)
(***************************************************************************)

\* F applied to the value of v, with v evaluated once
Apply(v, F(_)) == CHOOSE r \in {F(x) : x \in {v}} : TRUE

\* strings.HasPrefix
HasPrefix(s, p) ==
    /\ Len(p) <= Len(s)
    /\ \A i \in 1..Len(p) : s[i] = p[i]

\* strings.HasSuffix
HasSuffix(s, p) ==
    /\ Len(p) <= Len(s)
    /\ \A i \in 1..Len(p) : s[Len(s) - Len(p) + i] = p[i]

\* strings.Contains for a one-character needle
Contains(s, c) == \E i \in 1..Len(s) : s[i] = c

\* strings.Index for a one-character needle, 1-based; 0 when absent
Index(s, c) ==
    IF Contains(s, c)
    THEN CHOOSE i \in 1..Len(s) : s[i] = c /\ \A j \in 1..(i - 1) : s[j] # c
    ELSE 0

\* strings.LastIndex for a one-character needle, 1-based; 0 when absent
LastIndex(s, c) ==
    IF Contains(s, c)
    THEN CHOOSE i \in 1..Len(s) : s[i] = c /\ \A j \in (i + 1)..Len(s) : s[j] # c
    ELSE 0

\* strings.Cut(s, c): the text before and after the first c
CutBefore(s, c) ==
    Apply(Index(s, c), LAMBDA i : IF i = 0 THEN s ELSE SubSeq(s, 1, i - 1))
CutAfter(s, c) ==
    Apply(Index(s, c), LAMBDA i : IF i = 0 THEN <<>> ELSE SubSeq(s, i + 1, Len(s)))

\* strings.TrimRight(s, "/"): s up to its last character other than "/"
TrimRightSlash(s) ==
    IF \A i \in 1..Len(s) : s[i] = "/" THEN <<>>
    ELSE SubSeq(s, 1, CHOOSE i \in 1..Len(s) :
                          s[i] # "/" /\ \A j \in (i + 1)..Len(s) : s[j] = "/")

\* strings.TrimSpace(s) == "" : every character is white space
IsBlank(s) == \A i \in 1..Len(s) : s[i] = " "

\* The letters and digits of the model's texts
Letters == {"a", "b", "c", "d", "e", "h", "i", "j", "p", "r", "s", "t", "v", "x"}
Digits == {"8"}

(***************************************************************************)
(* Part 2.  net/url as used by the crawler.  The texts of the model hold   *)
(* no "?", no "%" and no character that net/url escapes, so escaping and   *)
(* the query are left out.                                                 *)
(***************************************************************************)

\* The zero url.URL
EmptyURL ==
    [Scheme |-> <<>>, Opaque |-> <<>>, HasUser |-> FALSE, User |-> <<>>,
     Host |-> <<>>, Path |-> <<>>, Fragment |-> <<>>, OmitHost |-> FALSE]

ParseError == [err |-> TRUE, url |-> EmptyURL]
Parsed(u) == [err |-> FALSE, url |-> u]

\* url.getScheme, its loop from character i on: [err, scheme, rest]
RECURSIVE getSchemeFrom(_, _)
getSchemeFrom(rawURL, i) ==
    IF i > Len(rawURL) THEN [err |-> FALSE, scheme |-> <<>>, rest |-> rawURL]
    ELSE CASE rawURL[i] \in Letters -> getSchemeFrom(rawURL, i + 1)
           [] rawURL[i] \in Digits \cup {"+", "-", "."} ->
                IF i = 1 THEN [err |-> FALSE, scheme |-> <<>>, rest |-> rawURL]
                ELSE getSchemeFrom(rawURL, i + 1)
           [] rawURL[i] = ":" ->
                IF i = 1 THEN [err |-> TRUE, scheme |-> <<>>, rest |-> <<>>]
                ELSE [err |-> FALSE, scheme |-> SubSeq(rawURL, 1, i - 1),
                      rest |-> SubSeq(rawURL, i + 1, Len(rawURL))]
           [] OTHER -> [err |-> FALSE, scheme |-> <<>>, rest |-> rawURL]

getScheme(rawURL) == getSchemeFrom(rawURL, 1)

\* url.validOptionalPort: "" or ":" followed by digits
validOptionalPort(port) ==
    \/ port = <<>>
    \/ /\ port[1] = ":"
       /\ \A i \in 2..Len(port) : port[i] \in Digits

\* url.parseHost: the host is kept as written; only the port is validated
parseHostOk(host) ==
    Apply(LastIndex(host, ":"),
          LAMBDA i : i = 0 \/ validOptionalPort(SubSeq(host, i, Len(host))))

\* url.parseAuthority: [err, HasUser, User, Host]
parseAuthority(authority) ==
    Apply(LastIndex(authority, "@"), LAMBDA i :
        IF ~parseHostOk(SubSeq(authority, i + 1, Len(authority)))
        THEN [err |-> TRUE, HasUser |-> FALSE, User |-> <<>>, Host |-> <<>>]
        ELSE [err |-> FALSE, HasUser |-> (i # 0),
              User |-> SubSeq(authority, 1, i - 1),
              Host |-> SubSeq(authority, i + 1, Len(authority))])

\* url.parse after getScheme, for a rest that begins with "//": the
\* authority runs to the next "/", the path is what follows
parseWithAuthority(scheme, after) ==
    Apply(Index(after, "/"), LAMBDA i :
    Apply(parseAuthority(IF i = 0 THEN after ELSE SubSeq(after, 1, i - 1)), LAMBDA a :
        IF a.err THEN ParseError
        ELSE Parsed([EmptyURL EXCEPT
                        !.Scheme = scheme, !.HasUser = a.HasUser, !.User = a.User,
                        !.Host = a.Host,
                        !.Path = IF i = 0 THEN <<>> ELSE SubSeq(after, i, Len(after))])))

\* url.parse after getScheme: scheme and rest are what getScheme returned
parseRest(scheme, rest) ==
    IF ~HasPrefix(rest, <<"/">>) /\ scheme # <<>>
    THEN Parsed([EmptyURL EXCEPT !.Scheme = scheme, !.Opaque = rest])
    ELSE IF ~HasPrefix(rest, <<"/">>) /\ Contains(CutBefore(rest, "/"), ":")
    THEN ParseError
    ELSE IF (scheme # <<>> \/ ~HasPrefix(rest, <<"/", "/", "/">>))
            /\ HasPrefix(rest, <<"/", "/">>)
    THEN parseWithAuthority(scheme, SubSeq(rest, 3, Len(rest)))
    ELSE Parsed([EmptyURL EXCEPT
                    !.Scheme = scheme, !.Path = rest,
                    !.OmitHost = (scheme # <<>> /\ HasPrefix(rest, <<"/">>))])

\* url.parse(rawURL, viaRequest = false), for text without "#"
parseNoFragment(rawURL) ==
    Apply(getScheme(rawURL), LAMBDA g :
        IF g.err THEN ParseError ELSE parseRest(g.scheme, g.rest))

\* url.Parse: the fragment is cut off first, then the rest is parsed
Parse(rawURL) ==
    Apply(parseNoFragment(CutBefore(rawURL, "#")), LAMBDA p :
        IF p.err THEN p
        ELSE Parsed([p.url EXCEPT !.Fragment = CutAfter(rawURL, "#")]))

\* The position of the first "/" of s at or after position i; 0 when none
NextSlash(s, i) ==
    IF \E j \in i..Len(s) : s[j] = "/"
    THEN CHOOSE j \in i..Len(s) : s[j] = "/" /\ \A k \in i..(j - 1) : s[k] # "/"
    ELSE 0

\* The "/"-separated elements of s from position i on, as strings.Cut
\* yields them in turn in url.resolvePath
RECURSIVE ElementsFrom(_, _)
ElementsFrom(s, i) ==
    Apply(NextSlash(s, i), LAMBDA j :
        IF j = 0 THEN <<SubSeq(s, i, Len(s))>>
        ELSE <<SubSeq(s, i, j - 1)>> \o ElementsFrom(s, j + 1))

\* One pass of the loop of url.resolvePath over elem: st.dst is the text
\* built so far (with its leading "/"), st.first tells whether no element
\* was written since the last reset
resolveStep(st, elem) ==
    CASE elem = <<".">> -> [dst |-> st.dst, first |-> FALSE]
      [] elem = <<".", ".">> ->
            Apply(LastIndex(SubSeq(st.dst, 2, Len(st.dst)), "/"), LAMBDA index :
                IF index = 0
                THEN [dst |-> <<"/">>, first |-> TRUE]
                ELSE [dst |-> SubSeq(st.dst, 1, index), first |-> st.first])
      [] OTHER ->
            [dst |-> (IF st.first THEN st.dst ELSE st.dst \o <<"/">>) \o elem,
             first |-> FALSE]

\* The loop of url.resolvePath over the first n elements
RECURSIVE resolveLoop(_, _)
resolveLoop(elems, n) ==
    IF n = 0 THEN [dst |-> <<"/">>, first |-> TRUE]
    ELSE Apply(resolveLoop(elems, n - 1), LAMBDA st : resolveStep(st, elems[n]))

\* url.resolvePath once base and ref are joined into full
resolveFull(full) ==
    Apply(ElementsFrom(full, 1), LAMBDA elems :
    Apply(resolveLoop(elems, Len(elems)).dst, LAMBDA built :
    Apply(IF elems[Len(elems)] \in {<<".">>, <<".", ".">>}
          THEN built \o <<"/">> ELSE built, LAMBDA r :
        IF Len(r) > 1 /\ r[2] = "/" THEN SubSeq(r, 2, Len(r)) ELSE r)))

\* url.resolvePath(base, ref)
resolvePath(base, ref) ==
    Apply(IF ref = <<>> THEN base
          ELSE IF ref[1] # "/" THEN SubSeq(base, 1, LastIndex(base, "/")) \o ref
          ELSE ref,
          LAMBDA full : IF full = <<>> THEN <<>> ELSE resolveFull(full))

\* (*url.URL).ResolveReference, for a reference without a scheme
ResolveReference(u, ref) ==
    IF ref.Host # <<>> \/ ref.HasUser
    THEN [ref EXCEPT !.Scheme = u.Scheme, !.Path = resolvePath(ref.Path, <<>>)]
    ELSE [ref EXCEPT !.Scheme = u.Scheme,
                     !.Host = u.Host, !.HasUser = u.HasUser, !.User = u.User,
                     !.Path = resolvePath(u.Path, ref.Path),
                     !.Fragment = IF ref.Path = <<>> /\ ref.Fragment = <<>>
                                  THEN u.Fragment ELSE ref.Fragment]

\* (*url.URL).String, the part before the path: scheme and authority
StringAuthority(u) ==
    (IF u.Scheme # <<>> THEN u.Scheme \o <<":">> ELSE <<>>)
    \o (IF (u.Scheme # <<>> \/ u.Host # <<>> \/ u.HasUser)
           /\ ~(u.OmitHost /\ u.Host = <<>> /\ ~u.HasUser)
        THEN (IF u.Host # <<>> \/ u.Path # <<>> \/ u.HasUser THEN <<"/", "/">> ELSE <<>>)
             \o (IF u.HasUser THEN u.User \o <<"@">> ELSE <<>>)
             \o u.Host
        ELSE <<>>)
    \o (IF u.Path # <<>> /\ u.Path[1] # "/" /\ u.Host # <<>> THEN <<"/">> ELSE <<>>)

\* (*url.URL).String
String(u) ==
    IF u.Opaque # <<>>
    THEN u.Scheme \o <<":">> \o u.Opaque
         \o (IF u.Fragment # <<>> THEN <<"#">> \o u.Fragment ELSE <<>>)
    ELSE Apply(StringAuthority(u), LAMBDA buf :
            buf
            \o (IF buf = <<>> /\ Contains(CutBefore(u.Path, "/"), ":")
                THEN <<".", "/">> ELSE <<>>)
            \o u.Path
            \o (IF u.Fragment # <<>> THEN <<"#">> \o u.Fragment ELSE <<>>))

(***************************************************************************)
(* Part 3.  The URL normaliser and the trailing-slash helper               *)
(***************************************************************************)

\* crawler.domain: the origin the crawler is scoped to, "http://d"
domain == <<"h", "t", "t", "p", ":", "/", "/", "d">>

\* ("", false)
Rejected == [ok |-> FALSE, url |-> <<>>]

\* normalizeURL from the domain test on: normalized is the text of the
\* resolved URL without fragment and trailing slashes
acceptInDomain(normalized) ==
    IF HasPrefix(normalized, domain) THEN [ok |-> TRUE, url |-> normalized] ELSE Rejected

\* normalizeURL once href is parsed into u: a relative reference is
\* resolved against the domain, the fragment is removed, the text is trimmed
normalizeParsed(u) ==
    IF u.Scheme # <<>>
    THEN acceptInDomain(TrimRightSlash(String([u EXCEPT !.Fragment = <<>>])))
    ELSE Apply(Parse(domain), LAMBDA base :
            IF base.err THEN Rejected
            ELSE Apply(ResolveReference(base.url, u), LAMBDA r :
                    acceptInDomain(TrimRightSlash(String([r EXCEPT !.Fragment = <<>>])))))

\* crawler.normalizeURL(href): [ok, url]
normalizeURL(href) ==
    IF IsBlank(href) THEN Rejected
    ELSE Apply(Parse(href), LAMBDA p :
            IF p.err \/ p.url.Scheme = <<"j", "a", "v", "a", "s", "c", "r", "i", "p", "t">>
            THEN Rejected
            ELSE normalizeParsed(p.url))

\* ensureTrailingSlash(urlStr)
ensureTrailingSlash(urlStr) ==
    Apply(Parse(urlStr), LAMBDA p :
        IF p.err THEN urlStr
        ELSE IF (p.url.Path = <<>> \/ ~HasSuffix(p.url.Path, <<"/">>))
                /\ ~Contains(p.url.Path, ".")
        THEN String([p.url EXCEPT !.Path = @ \o <<"/">>])
        ELSE String(p.url))

(***************************************************************************)
(* Part 4.  HTML documents and the link extractor                          *)
(*                                                                         *)
(* A document is the token stream html.Tokenizer yields for its bytes: a   *)
(* sequence of tokens [Type, Data, Attr], Attr a sequence of <<Key, Val>>  *)
(* pairs.  The ErrorToken that ends every stream (io.EOF, also for         *)
(* truncated input) is the end of the sequence.                            *)
(***************************************************************************)

Tag(type, data, attr) == [Type |-> type, Data |-> data, Attr |-> attr]

\* Link values that occur in the documents
hrefA == <<"/", "a">>
hrefASlash == <<"/", "a", "/">>
hrefAFrag == <<"/", "a", "#", "x">>
hrefB == <<"/", "b">>
hrefC == <<"/", "c">>
hrefRoot == <<"/">>
hrefAbsB == domain \o <<"/", "b">>
hrefOther == <<"h", "t", "t", "p", ":", "/", "/", "e", "/", "a">>
hrefSecure == <<"h", "t", "t", "p", "s", ":", "/", "/", "d", "/", "a">>
hrefScript == <<"j", "a", "v", "a", "s", "c", "r", "i", "p", "t", ":", "x">>
hrefLongerHost == domain \o <<".", "e">>

\* An index page: anchors to /a (twice, once with a fragment), to another
\* site and to a javascript: link, a stylesheet <link>, and an anchor that
\* carries only a configured extra attribute
DocIndex ==
    [bytes |-> "index",
     tokens |-> << Tag("StartTag", "html", <<>>),
                   Tag("StartTag", "link", << <<"href", hrefC>> >>),
                   Tag("StartTag", "a", << <<"href", hrefA>> >>),
                   Tag("EndTag", "a", <<>>),
                   Tag("StartTag", "a", << <<"href", hrefOther>> >>),
                   Tag("StartTag", "a", << <<"class", hrefC>>, <<"href", hrefAFrag>> >>),
                   Tag("StartTag", "a", << <<"href", hrefScript>> >>),
                   Tag("StartTag", "a", << <<"hx-get", hrefC>> >>),
                   Tag("SelfClosingTag", "area", << <<"hx-get", hrefB>> >>),
                   Tag("Text", "a", <<>>),
                   Tag("EndTag", "html", <<>>) >>]

\* A page that links back to the root and to itself (with a trailing
\* slash), and whose button carries a configured extra attribute
DocLeaf ==
    [bytes |-> "leaf",
     tokens |-> << Tag("StartTag", "div", <<>>),
                   Tag("StartTag", "a", << <<"href", hrefRoot>> >>),
                   Tag("StartTag", "a", << <<"href", hrefASlash>> >>),
                   Tag("StartTag", "a", << <<"href", hrefSecure>> >>),
                   Tag("StartTag", "a", << <<"href", hrefLongerHost>> >>),
                   Tag("StartTag", "button", << <<"hx-get", hrefAbsB>>, <<"href", hrefC>> >>),
                   Tag("EndTag", "button", <<>>) >>]

\* A page without links, cut off inside its markup
DocPlain ==
    [bytes |-> "plain",
     tokens |-> << Tag("StartTag", "h1", <<>>), Tag("Text", "a", <<>>) >>]

\* crawler.linkAttributes as configured by SetLinkAttributes("hx-get")
HxGet == <<"hx-get">>

\* slices.Contains
SliceContains(slice, x) == \E i \in 1..Len(slice) : slice[i] = x

\* The inner loops of extractLinks over token.Attr: the attributes of one tag,
\* taken in order; keys are the attribute names that are link sources
RECURSIVE attrLinks(_, _, _)
attrLinks(attr, i, keys) ==
    IF i > Len(attr) THEN <<>>
    ELSE (IF SliceContains(keys, attr[i][1])
          THEN Apply(normalizeURL(attr[i][2]),
                     LAMBDA n : IF n.ok THEN <<n.url>> ELSE <<>>)
          ELSE <<>>)
         \o attrLinks(attr, i + 1, keys)

\* Fault: the href of any tag is taken, and the configured attributes too
tokenLinksAnyHref(token, linkAttrs) ==
    IF token.Type \notin {"StartTag", "SelfClosingTag"} THEN <<>>
    ELSE attrLinks(token.Attr, 1, linkAttrs \o <<"href">>)

\* The links extractLinks appends for one token: the href of an <a>, the
\* configured attributes of any other start or self-closing tag
tokenLinks(token, linkAttrs) ==
    IF token.Type \notin {"StartTag", "SelfClosingTag"} THEN <<>>
    ELSE IF token.Data = "a" THEN attrLinks(token.Attr, 1, <<"href">>)
    ELSE attrLinks(token.Attr, 1, linkAttrs)

\* crawler.extractLinks(r): the links of every token up to the ErrorToken
RECURSIVE extractFrom(_, _, _)
extractFrom(tokens, i, linkAttrs) ==
    IF i > Len(tokens) THEN <<>>
    ELSE tokenLinks(tokens[i], linkAttrs) \o extractFrom(tokens, i + 1, linkAttrs)

extractLinks(tokens, linkAttrs) == extractFrom(tokens, 1, linkAttrs)

\* hex.EncodeToString(sha256(bodyBytes)): equal for equal bytes, and distinct
\* for the distinct documents of the model
checksumOf(body) == body.bytes

(***************************************************************************)
(* Part 5.  State                                                          *)
(***************************************************************************)

VARIABLES
    startingURL,    \* options.startingURL, read by the goroutine at every crawl
    crawlInterval,  \* options.crawlInterval, read once by time.NewTicker
    mutex,          \* crawler.mutex: TRUE while locked
    visited,        \* crawler.visited: link -> [checksum, lastChanged]
    links,          \* crawler.links:   link -> [checksum, lastChanged]
    queue,          \* the local queue of crawl
    cpc,            \* where crawl is: "idle" (not running) or "loop"
    spc,            \* where the goroutine of NewSiteMapper is
    tickerC,        \* number of ticks buffered in ticker.C (capacity 1)
    callers,        \* per caller of RecrawlSite: "idle" or "sending"
    during,         \* history: the senders whose call came while crawl was running
    linkAttributes, \* crawler.linkAttributes
    infoLogger,     \* crawler.infoLogger: FALSE when nil
    errorLogger,    \* crawler.errorLogger: FALSE when nil
    doc,            \* input of extractLinks: the tokens of a document
    readers,        \* per caller of getLinks: "idle", "locking" or "done"
    snapshot,       \* per caller of getLinks: the slice last returned
    clock,          \* what time.Now() returns; one unit per crawl
    served,         \* the documents the site can answer with
    cycleCap,       \* how many crawls this behaviour may start
    fetched,        \* history: the links a GET was issued for in this crawl
    refetched,      \* history: the links a GET was issued for more than once
    succeeded,      \* history: the links whose GET answered 200 in this crawl
    failed,         \* history: the links a GET failed for in this crawl
    seedOk,         \* history: whether the seed of the latest crawl normalised
    active,         \* history: calls of crawl entered and not yet returned
    published,      \* history: crawler.links when the latest crawl returned
    earlier,        \* history: crawler.links when the crawl before it returned
    expected,       \* history: per reader, published when getLinks returned
    href,           \* input of the pure functions
    result          \* output of the pure functions

vars == <<startingURL, crawlInterval, mutex, visited, links, queue, cpc, spc,
          tickerC, callers, during, linkAttributes, infoLogger, errorLogger, doc, readers, snapshot, clock, served, cycleCap, fetched,
          refetched, succeeded, failed, seedOk, active, published, earlier, expected,
          href, result>>

configVars == <<crawlInterval, served, cycleCap, linkAttributes, infoLogger, errorLogger>>
callerVars == <<callers, during>>
historyVars == <<fetched, refetched, succeeded, failed>>
crawlVars == <<mutex, visited, links, queue, cpc, clock, historyVars, seedOk, published,
              earlier>>
readerVars == <<readers, snapshot, expected>>
pureVars == <<href, doc, result>>

\* How many crawls a behaviour may start: on the sites with two documents,
\* and on the sites with one
MaxCycles == 2
MaxCyclesSmall == 3

Callers == {"c1", "c2"}
Readers == {"r1"}
Docs == {DocIndex, DocLeaf, DocPlain}

\* make(map[string]crawlerURL)
EmptyMap == <<>>

Has(m, k) == k \in DOMAIN m

\* m[k] = v on a Go map
Put(m, k, v) == [x \in DOMAIN m \cup {k} |-> IF x = k THEN v ELSE m[x]]

\* Arguments tried on SetStartingURL
seedOtherHost == <<"/", "/", "e", "/", "a">>
SeedCandidates == {hrefRoot, seedOtherHost, <<"a">>, hrefAbsB, <<>>}


(***************************************************************************)
(* Part 6.  The crawl engine: crawler.crawl and crawler.getLinks           *)
(***************************************************************************)

\* The goroutine is inside a call of crawler.crawl
InCrawlCall == spc \in {"first", "tick", "manual"}

\* A panic in the goroutine ends the process
Alive == spc # "panic"

\* Where the goroutine goes when crawl returns: after the first crawl it
\* creates the ticker (time.NewTicker panics unless the interval is
\* positive) and enters the select loop; after a crawl made inside the
\* loop it calls the callback
AfterCrawl ==
    CASE spc = "first" -> IF crawlInterval > 0 THEN "select" ELSE "panic"
      [] OTHER -> "callback"

\* The links of a page that crawl appends to the queue
RECURSIVE UnvisitedFrom(_, _, _)
UnvisitedFrom(found, i, seen) ==
    IF i > Len(found) THEN <<>>
    ELSE (IF Has(seen, found[i]) THEN <<>> ELSE <<found[i]>>)
         \o UnvisitedFrom(found, i + 1, seen)

Unvisited(found, seen) == UnvisitedFrom(found, 1, seen)

\* The crawlerURL stored for a fetched page
Record(body) == [checksum |-> checksumOf(body), lastChanged |-> clock]

\* Fault: the links of earlier crawls are merged into the new map
ReconcileKeepsStale(old, new) ==
    [l \in DOMAIN old \cup DOMAIN new |-> IF Has(new, l) THEN new[l] ELSE old[l]]

\* Fault: the records of this crawl replace the old ones unconditionally
ReconcileTakesNew(old, new) == new

\* The newLinks map built when the queue is empty
Reconcile(old, new) ==
    [l \in DOMAIN new |->
        IF Has(old, l)
        THEN IF new[l].checksum # old[l].checksum THEN new[l] ELSE old[l]
        ELSE new[l]]

\* Fault: the early return clears the known links as it cleared visited
CrawlAbortClearsLinks ==
    /\ mutex' = FALSE
    /\ queue' = <<>>
    /\ cpc' = "idle"
    /\ spc' = AfterCrawl
    /\ links' = EmptyMap
    /\ published' = EmptyMap
    /\ earlier' = published
    /\ active' = active - 1

\* The return of crawl when the seed does not normalise: nothing but the
\* deferred Unlock runs, and control is back in the goroutine
CrawlAbort ==
    /\ mutex' = FALSE
    /\ queue' = <<>>
    /\ cpc' = "idle"
    /\ spc' = AfterCrawl
    /\ links' = links
    /\ published' = links
    /\ earlier' = published
    /\ active' = active - 1

\* crawl, from its entry to the first loop test: lock, reset visited,
\* normalise the seed; a seed that does not normalise returns at once
CrawlBegin ==
    /\ Alive /\ InCrawlCall /\ cpc = "idle" /\ ~mutex
    /\ \E n \in {normalizeURL(startingURL)} :
         /\ visited' = EmptyMap
         /\ clock' = clock + 1
         /\ fetched' = {}
         /\ refetched' = {}
         /\ succeeded' = {}
         /\ failed' = {}
         /\ seedOk' = n.ok
         /\ IF n.ok
            THEN /\ mutex' = TRUE
                 /\ queue' = <<n.url>>
                 /\ cpc' = "loop"
                 /\ UNCHANGED <<links, spc, published, earlier, active>>
            ELSE CrawlAbort
    /\ UNCHANGED <<startingURL, tickerC, callerVars, configVars, readerVars, pureVars>>

\* One pass of the loop that dequeues a link already in visited
CrawlSkip ==
    /\ Alive /\ cpc = "loop" /\ queue # <<>>
    /\ Has(visited, Head(queue))
    /\ queue' = Tail(queue)
    /\ UNCHANGED <<mutex, visited, links, cpc, clock, historyVars, seedOk, active, published,
                   earlier,
                   spc, startingURL, tickerC, callerVars, configVars, readerVars, pureVars>>

\* client.Get(currentURL) is issued
Get(currentURL) ==
    /\ fetched' = fetched \cup {currentURL}
    /\ refetched' = IF currentURL \in fetched THEN refetched \cup {currentURL} ELSE refetched

\* The documents the server addressed by a link can answer with: the site
\* answers for the host of the domain, a foreign server for any other host
Answers(link) ==
    IF Parse(link).url.Host = Parse(domain).url.Host THEN served ELSE {DocPlain}

\* Fault: a link whose GET failed is put back at the end of the queue
FetchFailedRequeues(currentURL) ==
    /\ queue' = Tail(queue) \o <<currentURL>>
    /\ Get(currentURL)
    /\ failed' = failed \cup {currentURL}
    /\ UNCHANGED <<visited, succeeded>>

\* One pass of the loop whose GET fails: a transport error or a redirect
\* (client.Get returns an error), a status other than 200, or a body that
\* cannot be read.  The error is logged and the loop continues.
FetchFailed(currentURL) ==
    /\ queue' = Tail(queue)
    /\ Get(currentURL)
    /\ failed' = failed \cup {currentURL}
    /\ UNCHANGED <<visited, succeeded>>

\* A logger that is nil is called: the call panics, the deferred Unlock
\* runs, and the panic ends the goroutine and with it the process
LoggerPanics ==
    /\ mutex' = FALSE
    /\ queue' = <<>>
    /\ cpc' = "idle"
    /\ spc' = "panic"

CrawlFetchError ==
    /\ Alive /\ cpc = "loop" /\ queue # <<>>
    /\ ~Has(visited, Head(queue))
    /\ IF errorLogger
       THEN FetchFailed(Head(queue)) /\ UNCHANGED <<mutex, cpc, spc>>
       ELSE /\ LoggerPanics
            /\ Get(Head(queue))
            /\ failed' = failed \cup {Head(queue)}
            /\ UNCHANGED <<visited, succeeded>>
    /\ UNCHANGED <<links, clock, seedOk, active, published, earlier,
                   startingURL, tickerC, callerVars, configVars, readerVars, pureVars>>

\* One pass of the loop whose GET answers 200 with a readable body: the
\* links of the page not yet visited are appended, then the page is recorded
FetchSucceeded(currentURL, body) ==
    /\ \E found \in {extractLinks(body.tokens, linkAttributes)} :
           queue' = Tail(queue) \o Unvisited(found, visited)
    /\ visited' = Put(visited, currentURL, Record(body))
    /\ Get(currentURL)
    /\ succeeded' = succeeded \cup {currentURL}
    /\ UNCHANGED failed

CrawlFetchOK ==
    /\ Alive /\ cpc = "loop" /\ queue # <<>>
    /\ ~Has(visited, Head(queue))
    /\ IF infoLogger
       THEN /\ \E body \in Answers(Head(queue)) : FetchSucceeded(Head(queue), body)
            /\ UNCHANGED <<mutex, cpc, spc>>
       ELSE /\ Answers(Head(queue)) # {}
            /\ LoggerPanics
            /\ Get(Head(queue))
            /\ succeeded' = succeeded \cup {Head(queue)}
            /\ UNCHANGED <<visited, failed>>
    /\ UNCHANGED <<links, clock, seedOk, active, published, earlier,
                   startingURL, tickerC, callerVars, configVars, readerVars, pureVars>>

\* crawl, from the end of the loop to its return: the known links are
\* replaced and the deferred Unlock runs
CrawlFinish ==
    /\ Alive /\ cpc = "loop" /\ queue = <<>>
    /\ links' = Reconcile(links, visited)
    /\ published' = links'
    /\ earlier' = published
    /\ mutex' = FALSE
    /\ cpc' = "idle"
    /\ spc' = AfterCrawl
    /\ active' = active - 1
    /\ UNCHANGED <<visited, queue, clock, historyVars, seedOk,
                   startingURL, tickerC, callerVars, configVars, readerVars, pureVars>>

\* Fault: getLinks copies the map the crawl is filling
CollectVisited == visited

\* What getLinks copies out: slices.Collect(maps.Values(crawler.links)),
\* kept as the map since the records carry their link
Collect == links

\* A caller enters getLinks and reaches mutex.Lock()
GetLinksCall(r) ==
    /\ Alive /\ readers[r] = "idle"
    /\ readers' = [readers EXCEPT ![r] = "locking"]
    /\ UNCHANGED <<snapshot, expected, crawlVars, active, spc, startingURL, tickerC, callerVars,
                   configVars, pureVars>>

\* getLinks gets the lock, copies the links and unlocks
GetLinksReturn(r) ==
    /\ Alive /\ readers[r] = "locking"
    /\ ~mutex
    /\ snapshot' = [snapshot EXCEPT ![r] = Collect]
    /\ expected' = [expected EXCEPT ![r] = published]
    /\ readers' = [readers EXCEPT ![r] = "done"]
    /\ UNCHANGED <<crawlVars, active, spc, startingURL, tickerC, callerVars, configVars, pureVars>>

\* The caller drops the slice it got
GetLinksDrop(r) ==
    /\ Alive /\ readers[r] = "done"
    /\ readers' = [readers EXCEPT ![r] = "idle"]
    /\ snapshot' = [snapshot EXCEPT ![r] = EmptyMap]
    /\ expected' = [expected EXCEPT ![r] = EmptyMap]
    /\ UNCHANGED <<crawlVars, active, spc, startingURL, tickerC, callerVars, configVars, pureVars>>

(***************************************************************************)
(* Part 7.  The scheduler: the goroutine of NewSiteMapper, RecrawlSite     *)
(***************************************************************************)

\* SetStartingURL accepts urlPath: it parses, is not absolute and begins with "/"
SetStartingURLAccepts(urlPath) ==
    /\ HasPrefix(urlPath, <<"/">>)
    /\ \E p \in {Parse(urlPath)} : ~p.err /\ p.url.Scheme = <<>>

\* options.SetStartingURL(urlPath) on the options the goroutine reads
SetStartingURL(urlPath) ==
    /\ Alive
    /\ IF SetStartingURLAccepts(urlPath)
       THEN startingURL' = urlPath
       ELSE UNCHANGED startingURL
    /\ UNCHANGED <<crawlVars, active, spc, tickerC, callerVars, configVars, readerVars, pureVars>>

\* time.Sleep(options.durationBeforeFirstCrawl) is over (or was skipped):
\* the goroutine calls crawl for the first time
StartDelayElapsed ==
    /\ spc = "delay"
    /\ spc' = "first"
    /\ active' = active + 1
    /\ UNCHANGED <<crawlVars, startingURL, tickerC, callerVars, configVars, readerVars, pureVars>>

\* The ticker sends on ticker.C, a channel of capacity 1; a tick that finds
\* the channel full is dropped
TickerFires ==
    /\ spc \in {"select", "tick", "manual", "callback", "blocked"}
    /\ tickerC = 0
    /\ tickerC' = 1
    /\ UNCHANGED <<crawlVars, active, spc, startingURL, callerVars, configVars, readerVars,
                   pureVars>>

\* Fault: every stimulus is served at once, as if each crawl had a
\* goroutine of its own
AtSelectOrCrawling == spc \in {"select", "tick", "manual"}

\* The goroutine is waiting in its select statement
AtSelect == spc = "select"

\* case <-ticker.C: the goroutine calls crawl
SelectTick ==
    /\ AtSelect /\ tickerC = 1
    /\ clock < cycleCap
    /\ tickerC' = 0
    /\ spc' = "tick"
    /\ active' = active + 1
    /\ UNCHANGED <<crawlVars, startingURL, callerVars, configVars, readerVars, pureVars>>

\* mapper.RecrawlSite(): the caller reaches the send on recrawlSignal, an
\* unbuffered channel
RecrawlSite(c) ==
    /\ Alive /\ callers[c] = "idle"
    /\ callers' = [callers EXCEPT ![c] = "sending"]
    /\ during' = IF InCrawlCall THEN during \cup {c} ELSE during
    /\ UNCHANGED <<crawlVars, active, spc, startingURL, tickerC, configVars, readerVars,
                   pureVars>>

\* Fault: the goroutine receives the signal and goes back to waiting
SelectRecrawlNoCrawl(c) ==
    /\ AtSelect /\ callers[c] = "sending"
    /\ callers' = [callers EXCEPT ![c] = "idle"]
    /\ during' = during \ {c}
    /\ UNCHANGED <<crawlVars, active, spc, startingURL, tickerC, configVars, readerVars,
                   pureVars>>

\* case <-mapper.recrawlSignal: the goroutine receives from one sender,
\* whose RecrawlSite returns, and calls crawl
SelectRecrawl(c) ==
    /\ AtSelect /\ callers[c] = "sending"
    /\ clock < cycleCap
    /\ callers' = [callers EXCEPT ![c] = "idle"]
    /\ during' = during \ {c}
    /\ spc' = "manual"
    /\ active' = active + 1
    /\ UNCHANGED <<crawlVars, startingURL, tickerC, configVars, readerVars, pureVars>>

\* options.callbackFunc(mapper) returns
CallbackReturns ==
    /\ spc = "callback"
    /\ spc' = "select"
    /\ UNCHANGED <<crawlVars, active, startingURL, tickerC, callerVars, configVars, readerVars,
                   pureVars>>

\* options.callbackFunc(mapper) calls mapper.RecrawlSite(): the goroutine
\* sends on the channel only it receives from
CallbackRecrawlSite ==
    /\ spc = "callback"
    /\ spc' = "blocked"
    /\ UNCHANGED <<crawlVars, active, startingURL, tickerC, callerVars, configVars, readerVars,
                   pureVars>>

(***************************************************************************)
(* Part 8.  Specifications                                                 *)
(***************************************************************************)

\* The state NewSiteMapper(options) leaves, the goroutine not yet started
InitSystem ==
    /\ startingURL = hrefRoot
    /\ mutex = FALSE
    /\ visited = EmptyMap
    /\ links = EmptyMap
    /\ queue = <<>>
    /\ cpc = "idle"
    /\ spc = "delay"
    /\ tickerC = 0
    /\ callers = [c \in Callers |-> "idle"]
    /\ during = {}
    /\ readers = [r \in Readers |-> "idle"]
    /\ snapshot = [r \in Readers |-> EmptyMap]
    /\ expected = [r \in Readers |-> EmptyMap]
    /\ clock = 0
    /\ fetched = {}
    /\ refetched = {}
    /\ succeeded = {}
    /\ failed = {}
    /\ seedOk = FALSE
    /\ active = 0
    /\ published = EmptyMap
    /\ earlier = EmptyMap

\* No pure function was applied yet
NoResult == [op |-> "none", ok |-> FALSE, url |-> <<>>]

Crawl == CrawlBegin \/ CrawlSkip \/ CrawlFetchError \/ CrawlFetchOK \/ CrawlFinish

\* The crawl engine driven by the timer alone, on a site that can answer
\* any request with either of two documents or with a failure
InitCrawl ==
    /\ InitSystem
    /\ linkAttributes = HxGet
    /\ href = <<>>
    /\ doc = <<>>
    /\ result = NoResult
    /\ crawlInterval = 1
    /\ infoLogger = TRUE
    /\ errorLogger = TRUE
    /\ served \in {D \in SUBSET Docs : Cardinality(D) = 2}
    /\ cycleCap = MaxCycles

NextCrawl ==
    \/ Crawl
    \/ StartDelayElapsed
    \/ TickerFires
    \/ SelectTick
    \/ CallbackReturns

SpecCrawl == InitCrawl /\ [][NextCrawl]_vars

\* The goroutine keeps running: a crawl that can take a step takes one
FairSpecCrawl == SpecCrawl /\ WF_vars(Crawl)

\* The crawl engine driven by the timer and by RecrawlSite while the
\* starting URL is changed through the options, on a site of one document
InitSeed ==
    /\ InitSystem
    /\ linkAttributes = HxGet
    /\ href = <<>>
    /\ doc = <<>>
    /\ result = NoResult
    /\ crawlInterval = 1
    /\ infoLogger = TRUE
    /\ errorLogger = TRUE
    /\ served = {DocIndex}
    /\ cycleCap = MaxCyclesSmall

NextSeed ==
    \/ NextCrawl
    \/ \E u \in SeedCandidates : SetStartingURL(u)
    \/ \E c \in Callers : RecrawlSite(c) \/ SelectRecrawl(c)

SpecSeed == InitSeed /\ [][NextSeed]_vars

\* The crawls committed so far: begun, about to begin, or asked for
Committed ==
    clock + (IF spc = "delay" \/ (InCrawlCall /\ cpc = "idle") THEN 1 ELSE 0)
          + Cardinality({c \in Callers : callers[c] = "sending"})

\* A caller asks for a crawl while the behaviour may still start one
ManualTrigger(c) == Committed < cycleCap /\ RecrawlSite(c)

\* The goroutine between crawls: the first call, and the callback returning
Schedule == StartDelayElapsed \/ CallbackReturns

\* The library with a crawl interval so long that no tick comes, driven by
\* RecrawlSite alone, with a callback that returns
InitManual ==
    /\ InitSystem
    /\ linkAttributes = HxGet
    /\ href = <<>>
    /\ doc = <<>>
    /\ result = NoResult
    /\ crawlInterval = 1
    /\ infoLogger = TRUE
    /\ errorLogger = TRUE
    /\ served = {DocIndex, DocPlain}
    /\ cycleCap = MaxCyclesSmall

NextManual ==
    \/ Crawl
    \/ Schedule
    \/ \E c \in Callers : ManualTrigger(c) \/ SelectRecrawl(c)

\* The goroutine keeps running, and a select with a sender waiting
\* receives from it
FairSpecManual ==
    /\ InitManual /\ [][NextManual]_vars
    /\ WF_vars(Crawl \/ Schedule)
    /\ \A c \in Callers : WF_vars(SelectRecrawl(c))

\* The whole library with its callers
Init ==
    /\ InitSystem
    /\ linkAttributes = HxGet
    /\ href = <<>>
    /\ doc = <<>>
    /\ result = NoResult
    /\ crawlInterval \in {0, 1}
    /\ infoLogger = TRUE
    /\ errorLogger = TRUE
    /\ served = {DocIndex, DocPlain}
    /\ cycleCap = MaxCycles

Next ==
    \/ NextCrawl
    \/ CallbackRecrawlSite
    \/ \E c \in Callers : RecrawlSite(c) \/ SelectRecrawl(c)
    \/ \E r \in Readers : GetLinksCall(r) \/ GetLinksReturn(r) \/ GetLinksDrop(r)

Spec == Init /\ [][Next]_vars

\* The texts normalizeURL is tried on: every combination of a scheme, an
\* authority, a path and a fragment, and a text of white space only
Schemes ==
    { <<>>, <<"h", "t", "t", "p", ":">>, <<"h", "t", "t", "p", "s", ":">>,
      <<"j", "a", "v", "a", "s", "c", "r", "i", "p", "t", ":">> }
Authorities ==
    { <<>>, <<"/", "/", "d">>, <<"/", "/", "e">>, <<"/", "/", "d", ".", "e">>,
      <<"/", "/", "d", "@", "e">>, <<"/", "/", "d", ":", "8">>,
      <<"/", "/", "d", ":", "x">> }
Paths ==
    { <<>>, <<"/">>, <<"/", "a">>, <<"/", "a", "/">>, <<"a">>,
      <<"/", "a", "/", ".", ".", "/", "b">>, <<"/", "a", ".", "x">> }
Fragments == { <<>>, <<"#", "x">>, <<"#">> }
NormInputs ==
    { s \o a \o p \o f : s \in Schemes, a \in Authorities, p \in Paths, f \in Fragments }
    \cup { <<" ">> }

\* A call crawler.normalizeURL(href)
NormalizeCall ==
    /\ result.op = "none"
    /\ \E n \in {normalizeURL(href)} :
           result' = [op |-> "normalizeURL", ok |-> n.ok, url |-> n.url]
    /\ UNCHANGED <<href, doc, crawlVars, active, spc, startingURL, tickerC, callerVars, configVars,
                   readerVars>>

\* The normaliser of a crawler for the domain, called once on any text
InitNorm ==
    /\ InitSystem
    /\ crawlInterval = 1
    /\ infoLogger = TRUE
    /\ errorLogger = TRUE
    /\ served = {}
    /\ cycleCap = 0
    /\ linkAttributes = HxGet
    /\ href \in NormInputs
    /\ doc = <<>>
    /\ result = NoResult

NextNorm == NormalizeCall

\* A call ensureTrailingSlash(href), for texts net/url does not escape
EnsureTrailingSlashCall ==
    /\ result.op = "none"
    /\ ~Contains(href, " ")
    /\ \E out \in {ensureTrailingSlash(href)} :
           result' = [op |-> "ensureTrailingSlash", ok |-> TRUE, url |-> out]
    /\ UNCHANGED <<href, doc, crawlVars, active, spc, startingURL, tickerC, callerVars, configVars,
                   readerVars>>

\* The helper called once on any text
SpecSlash == InitNorm /\ [][EnsureTrailingSlashCall]_vars

SpecNorm == InitNorm /\ [][NextNorm]_vars

\* The tokens the documents given to extractLinks are made of
TokenPool ==
    { Tag("StartTag", "a", << <<"href", hrefA>> >>),
      Tag("StartTag", "a", << <<"hx-get", hrefB>>, <<"href", hrefAFrag>> >>),
      Tag("StartTag", "a", << <<"href", hrefScript>> >>),
      Tag("StartTag", "a", << <<"href", <<>> >> >>),
      Tag("StartTag", "link", << <<"href", hrefC>> >>),
      Tag("StartTag", "div", << <<"hx-get", hrefOther>> >>),
      Tag("SelfClosingTag", "area", << <<"hx-get", hrefB>>, <<"href", hrefC>> >>),
      Tag("EndTag", "a", <<>>),
      Tag("Text", "a", <<>>) }

\* How many tokens a document given to extractLinks holds at most
MaxTokens == 2

\* The documents given to extractLinks: the tokens read before the
\* tokenizer reports the end of the input or an error
DocInputs == UNION { [1..n -> TokenPool] : n \in 0..MaxTokens }

\* The values of crawler.linkAttributes: the default, and lists that
\* SetLinkAttributes accepts
AttrConfigs == { <<>>, HxGet, <<"href">>, <<"hx-get", "href">> }

\* A call crawler.extractLinks(r) on a reader over doc
ExtractCall ==
    /\ result.op = "none"
    /\ \E found \in {extractLinks(doc, linkAttributes)} :
           result' = [op |-> "extractLinks", links |-> found]
    /\ UNCHANGED <<href, doc, crawlVars, active, spc, startingURL, tickerC, callerVars,
                   configVars, readerVars>>

\* The extractor of a crawler for the domain, called once on any document
InitExtract ==
    /\ InitSystem
    /\ crawlInterval = 1
    /\ infoLogger = TRUE
    /\ errorLogger = TRUE
    /\ served = {}
    /\ cycleCap = 0
    /\ linkAttributes \in AttrConfigs
    /\ href = <<>>
    /\ doc \in DocInputs
    /\ result = NoResult

NextExtract == ExtractCall

SpecExtract == InitExtract /\ [][NextExtract]_vars

\* Fault: getLinks hands out the engine's own records, so a write through
\* the returned slice is a write to crawler.links
SliceIsShared(written) == written

\* crawler.links after a caller wrote into a slice it got: the slice was
\* allocated by slices.Collect and holds copies of the crawlerURL values
SliceIsCopy(written) == links

\* The caller overwrites the lastChanged of a record of its slice
CallerWrites(r) ==
    /\ Alive /\ readers[r] = "done"
    /\ \E l \in DOMAIN snapshot[r] :
         /\ snapshot[r][l].lastChanged # 0
         /\ snapshot' = [snapshot EXCEPT ![r][l].lastChanged = 0]
         /\ links' = SliceIsCopy(snapshot'[r])
    /\ UNCHANGED <<readers, expected, mutex, visited, queue, cpc, clock, historyVars, seedOk,
                   published, earlier, active, spc, startingURL, tickerC, callerVars, configVars,
                   pureVars>>

\* The engine driven by the timer, with a caller of getLinks that writes
\* into the slices it gets
InitSnapshot ==
    /\ InitSystem
    /\ linkAttributes = HxGet
    /\ href = <<>>
    /\ doc = <<>>
    /\ result = NoResult
    /\ crawlInterval = 1
    /\ infoLogger = TRUE
    /\ errorLogger = TRUE
    /\ served = {DocIndex, DocPlain}
    /\ cycleCap = MaxCycles

NextSnapshot ==
    \/ NextCrawl
    \/ \E r \in Readers : GetLinksCall(r) \/ GetLinksReturn(r) \/ GetLinksDrop(r)
    \/ \E r \in Readers : CallerWrites(r)

SpecSnapshot == InitSnapshot /\ [][NextSnapshot]_vars

\* DefaultOptions(): the fields the validating setters write, the domain
\* "http://localhost:8080" and the durations in the model's units
DefaultOptions ==
    [domain |-> <<"h", "t", "t", "p", ":", "/", "/", "h", ":", "8">>,
     durationBeforeFirstCrawl |-> 1,
     crawlInterval |-> 1,
     startingURL |-> <<"/">>,
     linkAttributes |-> <<>>]

\* What a setter returns and leaves: the error, and the options after it
Refused(options) == [err |-> TRUE, options |-> options]
Stored(options) == [err |-> FALSE, options |-> options]

\* (*url.URL).Hostname: the host without its port
Hostname(u) == CutBefore(u.Host, ":")

\* options.SetDomain(domain)
SetDomain(options, d) ==
    Apply(Parse(d), LAMBDA p :
        IF p.err THEN Refused(options)
        ELSE IF p.url.Scheme \notin {<<"h", "t", "t", "p">>, <<"h", "t", "t", "p", "s">>}
        THEN Refused(options)
        ELSE IF p.url.Path # <<>> /\ p.url.Path # <<"/">> THEN Refused(options)
        ELSE IF Hostname(p.url) = <<>> THEN Refused(options)
        ELSE Stored([options EXCEPT !.domain = TrimRightSlash(d)]))

\* options.SetDurationBeforeFirstCrawl(duration)
SetDurationBeforeFirstCrawl(options, duration) ==
    IF duration < 0 THEN Refused(options)
    ELSE Stored([options EXCEPT !.durationBeforeFirstCrawl = duration])

\* options.SetCrawlInterval(interval)
SetCrawlInterval(options, interval) ==
    IF interval < 0 THEN Refused(options)
    ELSE Stored([options EXCEPT !.crawlInterval = interval])

\* options.SetStartingURL(urlPath), on an options value
SetStartingURLOf(options, urlPath) ==
    IF ~SetStartingURLAccepts(urlPath) THEN Refused(options)
    ELSE Stored([options EXCEPT !.startingURL = urlPath])

\* options.SetLinkAttributes(attributes...)
SetLinkAttributes(options, attributes) ==
    IF Len(attributes) = 0 THEN Refused(options)
    ELSE Stored([options EXCEPT !.linkAttributes = attributes])

\* Arguments tried on SetDomain
DomainCandidates ==
    { domain, domain \o <<"/">>, domain \o <<"/", "a">>,
      <<"h", "t", "t", "p", "s", ":", "/", "/", "d">>,
      <<"j", "a", "v", "a", ":", "/", "/", "d">>,
      <<"h", "t", "t", "p", ":", "/", "/", ":", "8">>,
      <<"h", "t", "t", "p", ":", "/", "/", "d", ":", "x">>,
      <<"/", "a">>, <<"d">>, <<>> }

\* Arguments tried on the duration setters
DurationCandidates == {-1, 0, 2}

\* Arguments tried on SetLinkAttributes
AttributeCandidates == { <<>>, HxGet, <<"href">> }

\* A setter was called with arg on the options before and gave answer
Called(op, arg, before, answer) ==
    result' = [op |-> op, arg |-> arg, before |-> before,
               err |-> answer.err, options |-> answer.options]

\* One call of a validating setter on the options
SetterCall ==
    /\ \/ \E d \in DomainCandidates :
            Called("SetDomain", d, result.options, SetDomain(result.options, d))
       \/ \E t \in DurationCandidates :
            Called("SetDurationBeforeFirstCrawl", t, result.options,
                   SetDurationBeforeFirstCrawl(result.options, t))
       \/ \E t \in DurationCandidates :
            Called("SetCrawlInterval", t, result.options,
                   SetCrawlInterval(result.options, t))
       \/ \E u \in SeedCandidates :
            Called("SetStartingURL", u, result.options,
                   SetStartingURLOf(result.options, u))
       \/ \E a \in AttributeCandidates :
            Called("SetLinkAttributes", a, result.options,
                   SetLinkAttributes(result.options, a))
    /\ UNCHANGED <<href, doc, crawlVars, active, spc, startingURL, tickerC, callerVars,
                   configVars, readerVars>>

\* Options made by DefaultOptions(), before NewSiteMapper reads them
InitOptions ==
    /\ InitSystem
    /\ crawlInterval = 1
    /\ infoLogger = TRUE
    /\ errorLogger = TRUE
    /\ served = {}
    /\ cycleCap = 0
    /\ linkAttributes = <<>>
    /\ href = <<>>
    /\ doc = <<>>
    /\ result = [op |-> "DefaultOptions", arg |-> <<>>, before |-> DefaultOptions,
                 err |-> FALSE, options |-> DefaultOptions]

NextOptions == SetterCall

SpecOptions == InitOptions /\ [][NextOptions]_vars

\* The engine driven by the timer, made from options whose loggers may be
\* nil: new(SiteMapperOptions) with the domain and the interval set
InitSinks ==
    /\ InitSystem
    /\ linkAttributes = HxGet
    /\ href = <<>>
    /\ doc = <<>>
    /\ result = NoResult
    /\ crawlInterval = 1
    /\ infoLogger \in BOOLEAN
    /\ errorLogger \in BOOLEAN
    /\ served = {DocIndex, DocPlain}
    /\ cycleCap = MaxCycles

SpecSinks == InitSinks /\ [][NextCrawl]_vars

\* regexp.Compile, for patterns of literal characters and patterns with a
\* group that is never closed: [err, literal]
Compile(filterPattern) ==
    [err |-> Contains(filterPattern, "("), literal |-> filterPattern]

\* (*regexp.Regexp).MatchString for a pattern of literal characters: the
\* pattern occurs somewhere in the text
MatchString(filter, text) ==
    \E i \in 0..(Len(text) - Len(filter.literal)) :
        SubSeq(text, i + 1, i + Len(filter.literal)) = filter.literal

\* replaceDomain(link, oldDomain, newDomain)
replaceDomain(link, oldDomain, newDomain) ==
    IF HasPrefix(link, oldDomain)
    THEN newDomain \o SubSeq(link, Len(oldDomain) + 1, Len(link))
    ELSE link

\* The two XML declarations GenerateSitemap writes
HeaderMarshalled == "<?xml version=\"1.0\" encoding=\"UTF-8\"?>"
HeaderFallback == "<?xml version='1.0' encoding='UTF-8'?>"

\* Fault: on an error the urlset built so far is returned
EmptyURLSet(baseDomain) == [header |-> HeaderMarshalled, URLS |-> <<>>]

\* mapper.EmptySitemapXML(baseDomain): one url, the root of baseDomain,
\* dated now
EmptySitemapXML(baseDomain) ==
    [header |-> HeaderFallback,
     URLS |-> << [Location |-> baseDomain \o <<"/">>, LastModified |-> clock] >>]

\* Fault: the filter keeps what it should drop
KeptMatching(found, filter) == {l \in DOMAIN found : MatchString(filter, l)}

\* The links the loop of GenerateSitemap does not skip
Kept(found, filter) == {l \in DOMAIN found : ~MatchString(filter, l)}

\* The orders in which ranging over the links can meet the kept ones
Orderings(S) ==
    {f \in [1..Cardinality(S) -> S] : \A i, j \in DOMAIN f : f[i] = f[j] => i = j}

\* The document xml.MarshalIndent and the header give for the kept links
\* taken in this order
Marshalled(found, order, baseDomain) ==
    [header |-> HeaderMarshalled,
     URLS |-> [i \in DOMAIN order |->
                 [Location |-> replaceDomain(order[i], domain, baseDomain),
                  LastModified |-> found[order[i]].lastChanged]]]

\* Arguments tried on GenerateSitemap
BaseCandidates == {domain, <<"h", "t", "t", "p", "s", ":", "/", "/", "e">>}
FilterCandidates == {<<>>, <<"/", "a">>, <<"d", "/">>, <<"x">>, <<"(">>, <<"/", "a", "(">>}

\* mapper.GenerateSitemap(baseDomain, filterPattern): getLinks takes the
\* lock and copies the links, then the caller's goroutine builds the document
GenerateSitemap(baseDomain, filterPattern) ==
    /\ Alive /\ ~mutex
    /\ \E filter \in {Compile(filterPattern)} :
         IF filter.err
         THEN result' = [op |-> "GenerateSitemap", baseDomain |-> baseDomain,
                         filterPattern |-> filterPattern, err |-> TRUE,
                         xml |-> EmptySitemapXML(baseDomain)]
         ELSE \E order \in Orderings(Kept(Collect, filter)) :
                result' = [op |-> "GenerateSitemap", baseDomain |-> baseDomain,
                           filterPattern |-> filterPattern, err |-> FALSE,
                           xml |-> Marshalled(Collect, order, baseDomain)]
    /\ UNCHANGED <<href, doc, crawlVars, active, spc, startingURL, tickerC, callerVars,
                   configVars, readerVars>>

\* The engine driven by the timer, with a caller of GenerateSitemap
InitSitemap ==
    /\ InitSystem
    /\ linkAttributes = HxGet
    /\ href = <<>>
    /\ doc = <<>>
    /\ result = NoResult
    /\ crawlInterval = 1
    /\ infoLogger = TRUE
    /\ errorLogger = TRUE
    /\ served = {DocIndex, DocPlain}
    /\ cycleCap = MaxCycles

NextSitemap ==
    \/ NextCrawl
    \/ \E b \in BaseCandidates, f \in FilterCandidates : GenerateSitemap(b, f)

SpecSitemap == InitSitemap /\ [][NextSitemap]_vars

(***************************************************************************)
(* Part 9.  Properties                                                     *)
(***************************************************************************)

\* A crawl has returned and no later one has begun
CycleOver == cpc = "idle" /\ clock > 0

\* C1: a call of getLinks returns exactly the known links as the latest
\* crawl to return left them, which is the set from before a crawl that
\* overlaps the call or the set from after it, never a part of a crawl's
\* results
C1_GetLinksReturnsWholeSet ==
    \A r \in Readers : readers[r] = "done" => snapshot[r] = expected[r]

\* A caller holds the links the first crawl left while the second crawl
\* is fetching and has pages of its own in visited
C1_SnapshotDuringCrawl ==
    \E r \in Readers :
        /\ readers[r] = "done" /\ snapshot[r] # EmptyMap
        /\ cpc = "loop" /\ clock = 2 /\ visited # EmptyMap

\* C2: at most one call of crawl is in progress, whatever ticks and
\* RecrawlSite calls are pending, and a crawl in its loop holds the lock
C2_OneCycleAtATime ==
    /\ active <= 1
    /\ cpc = "loop" => (mutex /\ active = 1 /\ InCrawlCall)

\* A crawl is fetching while a tick is buffered and both callers of
\* RecrawlSite wait to be received
C2_StimuliDuringCrawl ==
    /\ cpc = "loop" /\ tickerC = 1
    /\ \A c \in Callers : callers[c] = "sending"

C4_LastChangedFollowsChecksum ==
    [][(cpc = "loop" /\ cpc' = "idle") =>
          \A l \in DOMAIN links \cap DOMAIN links' :
              IF visited[l].checksum = links[l].checksum
              THEN links'[l] = links[l]
              ELSE /\ links'[l].checksum = visited[l].checksum
                   /\ links'[l].lastChanged = clock]_vars

\* After the second crawl the root page, changed since the first crawl,
\* carries the time of the second, and an unchanged page the time of the
\* first
C4_ChangedAndUnchanged ==
    /\ CycleOver /\ clock = 2
    /\ Has(links, domain) /\ links[domain].lastChanged = 2
    /\ \E l \in DOMAIN links : links[l].lastChanged = 1

\* C5: within one crawl no link is requested more than once
C5_NoLinkFetchedTwice == refetched = {}

\* The crawl has returned, the lock is free
CycleReturned == cpc = "idle" /\ ~mutex

\* C6: every crawl that enters its loop empties the queue and returns,
\* releasing the lock
C6_CycleTerminates == (cpc = "loop") ~> CycleReturned

\* A crawl with failed and repeated requests has returned
C6_FailingCycleReturned ==
    /\ CycleReturned /\ clock > 0
    /\ failed # {} /\ refetched # {} /\ links # EmptyMap

\* The origin of a URL in text form: its scheme and its host with port
OriginOf(text) ==
    Apply(Parse(text), LAMBDA p : [Scheme |-> p.url.Scheme, Host |-> p.url.Host])

InDomain(text) == OriginOf(text) = OriginOf(domain)

\* C7: every link requested, visited or known has the origin of the domain
C7_CrawlStaysInDomain ==
    \A l \in fetched \cup DOMAIN visited \cup DOMAIN links : InDomain(l)

\* C8: normalizeURL accepts only texts that resolve to the origin of the
\* domain, and rejects blank text, text that does not parse and
\* javascript: links
C8_NormalizeRejectsOtherOrigins ==
    result.op = "normalizeURL" =>
        /\ result.ok => InDomain(result.url)
        /\ (IsBlank(href) \/ Parse(href).err
            \/ HasPrefix(href, <<"j", "a", "v", "a", "s", "c", "r", "i", "p", "t", ":">>))
              => ~result.ok

\* C9: a link whose GET failed in a crawl is not among the links the
\* crawl leaves
C9_FailedLinkAbsent ==
    CycleOver => failed \cap DOMAIN links = {}

\* C10: a crawl whose seed does not normalise requests nothing, leaves the
\* known links as they were, releases the lock, and returns to the
\* goroutine, which calls the callback unless this was the first crawl
C10_SeedFailureIsNoOp ==
    [][(clock' = clock + 1 /\ ~seedOk') =>
          /\ links' = links
          /\ fetched' = {}
          /\ cpc' = "idle" /\ ~mutex'
          /\ spc \in {"tick", "manual"} => spc' = "callback"]_vars

\* A crawl started by a tick or by RecrawlSite found a seed that does not
\* normalise: the links of the crawl before are known, the callback is next
C10_SeedFailedWithLinks ==
    /\ CycleOver /\ ~seedOk /\ clock >= 2
    /\ links # EmptyMap /\ fetched = {}
    /\ spc = "callback"

\* C11: every call of crawl by the goroutine (the first, one after a tick,
\* one after RecrawlSite) is followed, when it returns, by a call of the
\* callback
C11_CallbackAfterEveryCrawl ==
    [][(InCrawlCall /\ ~InCrawlCall') => spc' = "callback"]_vars

\* C12: when the goroutine takes a manual trigger that came while a crawl
\* was running, the crawl it starts serves every RecrawlSite call that
\* came while a crawl was running: none of them stays pending to start a
\* crawl of its own
C12_TriggersDuringCrawlCoalesce ==
    [][(AtSelect /\ spc' = "manual" /\ during' # during) => during' = {}]_vars

\* The callers whose send is received in this step
Taken == {c \in Callers : callers[c] = "sending" /\ callers'[c] = "idle"}

\* C13: no manual trigger is lost and none is served twice: a send is
\* received only by the goroutine at its select, one at a time, and every
\* receive starts one crawl; every caller that sends is received
C13_EveryTriggerStartsOneCrawl ==
    /\ [][(Taken # {} \/ (spc # "manual" /\ spc' = "manual")) =>
             /\ Cardinality(Taken) = 1
             /\ spc = "select" /\ spc' = "manual"
             /\ active' = active + 1]_vars
    /\ \A c \in Callers : (callers[c] = "sending") ~> (callers[c] = "idle")

\* Two callers sent while no crawl was running, and both found the
\* goroutine waiting in its select
C13_TwoTriggersWhileIdle ==
    /\ AtSelect /\ during = {}
    /\ \A c \in Callers : callers[c] = "sending"

\* C14: a call of getLinks made while a crawl is fetching can return at
\* once: it does not have to wait for the crawl to end
C14_ReaderNotBlockedByCrawl ==
    \A r \in Readers :
        (readers[r] = "locking" /\ cpc = "loop") => ENABLED GetLinksReturn(r)

\* C15: the callback can call RecrawlSite and return: the goroutine is
\* never left waiting on its own channel
C15_CallbackNeverBlocks == spc # "blocked"

\* C16: the goroutine never ends the process, whatever interval the
\* setter accepted
C16_SchedulerNeverDies == spc # "panic"

\* C17: a call of getLinks returns only after a crawl has completed
C17_QueryAfterFirstCycle ==
    [][\A r \in Readers :
          (readers[r] = "locking" /\ readers'[r] = "done") => clock >= 1]_vars

\* The attribute a link may be taken from: of an anchor its href, of
\* another tag an attribute that is configured
IsLinkSource(token, key) ==
    /\ token.Type \in {"StartTag", "SelfClosingTag"}
    /\ IF token.Data = "a" THEN key = "href" ELSE SliceContains(linkAttributes, key)

\* The places <<token, attribute>> of doc whose value is a link: it comes
\* from a link source and normalises
LinkPlaces ==
    { p \in (1..Len(doc)) \X (1..2) :
        /\ p[2] <= Len(doc[p[1]].Attr)
        /\ IsLinkSource(doc[p[1]], doc[p[1]].Attr[p[2]][1])
        /\ normalizeURL(doc[p[1]].Attr[p[2]][2]).ok }

\* Place p comes no later than place q in the document
NoLater(p, q) == p[1] < q[1] \/ (p[1] = q[1] /\ p[2] <= q[2])

\* C18: extractLinks returns, in document order, the normalised value of
\* every link place and nothing else
C18_ExtractsExactlyTheLinks ==
    result.op = "extractLinks" =>
        /\ Len(result.links) = Cardinality(LinkPlaces)
        /\ \A p \in LinkPlaces :
              result.links[Cardinality({q \in LinkPlaces : NoLater(q, p)})]
                  = normalizeURL(doc[p[1]].Attr[p[2]][2]).url

\* extractLinks returned two links from a document of which it dropped
\* an attribute value
C18_SomeKeptSomeDropped ==
    /\ result.op = "extractLinks" /\ Len(result.links) = 2
    /\ \E i \in 1..Len(doc) : Len(doc[i].Attr) = 2
    /\ Cardinality(LinkPlaces) = 2

\* The token without the href attributes it carries
WithoutHref(token) ==
    [token EXCEPT !.Attr = SelectSeq(token.Attr, LAMBDA at : at[1] # "href")]

\* The document with the href attributes of its non-anchor tags removed
WithoutOtherHref(tokens) ==
    [i \in 1..Len(tokens) |->
        IF tokens[i].Data = "a" THEN tokens[i] ELSE WithoutHref(tokens[i])]

\* C19: what extractLinks returns does not depend on the href attributes
\* of tags other than anchors
C19_NoHrefOfOtherTags ==
    result.op = "extractLinks" =>
        result.links = extractLinks(WithoutOtherHref(doc), linkAttributes)

\* The text carries no fragment and does not end in a slash
Trimmed(text) == ~Contains(text, "#") /\ ~HasSuffix(text, <<"/">>)

\* The text is a path relative to the domain: it begins with one slash
IsDomainPath(text) ==
    /\ Len(text) >= 1 /\ text[1] = "/"
    /\ Len(text) >= 2 => text[2] # "/"

\* normalizeURL gives the same answer for href with a fragment appended
FragmentIgnored ==
    ~Contains(href, "#") => normalizeURL(href \o <<"#", "x">>) = normalizeURL(href)

\* normalizeURL gives a domain-relative href the answer it gives the
\* same path written after the domain
RelativeAsAbsolute ==
    IsDomainPath(href) => normalizeURL(domain \o href) = normalizeURL(href)

\* normalizeURL returns its own result unchanged
Renormalized == normalizeURL(result.url) = [ok |-> TRUE, url |-> result.url]

\* C20: a successful result of normalizeURL has no fragment and no
\* trailing slash, is the same with a fragment appended to the input, is
\* the same for a domain-relative path and its absolute form, and is a
\* fixed point of normalizeURL
C20_ResultIsCanonical ==
    (result.op = "normalizeURL" /\ result.ok) =>
        /\ Trimmed(result.url)
        /\ FragmentIgnored
        /\ RelativeAsAbsolute
        /\ Renormalized

\* The engine moved: a step of crawl
EngineStep == links' # links \/ visited' # visited \/ queue' # queue \/ clock' # clock

WithGiven(options, op, arg) ==
    CASE op = "SetDomain" -> [options EXCEPT !.domain = arg]
      [] op = "SetDurationBeforeFirstCrawl" ->
            [options EXCEPT !.durationBeforeFirstCrawl = arg]
      [] op = "SetCrawlInterval" -> [options EXCEPT !.crawlInterval = arg]
      [] op = "SetStartingURL" -> [options EXCEPT !.startingURL = arg]
      [] op = "SetLinkAttributes" -> [options EXCEPT !.linkAttributes = arg]

\* The domain is not served over http or https, names no host, or has a path
BadDomain(d) ==
    \E p \in {Parse(d)} :
        \/ p.err
        \/ p.url.Scheme \notin {<<"h", "t", "t", "p">>, <<"h", "t", "t", "p", "s">>}
        \/ Hostname(p.url) = <<>>
        \/ p.url.Path \notin {<<>>, <<"/">>}

\* The input is one of those a setter has to refuse
BadInput(op, arg) ==
    CASE op = "SetDomain" -> BadDomain(arg)
      [] op = "SetDurationBeforeFirstCrawl" -> arg < 0
      [] op = "SetCrawlInterval" -> arg < 0
      [] op = "SetStartingURL" -> ~IsDomainPath(arg)
      [] op = "SetLinkAttributes" -> arg = <<>>

\* A setter that returned nil stored the given value, one that returned an
\* error stored nothing
StoredOrUntouched ==
    IF result.err THEN result.options = result.before
    ELSE result.options = WithGiven(result.before, result.op, result.arg)

\* A setter given bad input returned an error
BadInputRefused == BadInput(result.op, result.arg) => result.err

\* C22: a validating setter either returns nil and stores the value it was
\* given, or returns an error and changes no field; bad input is refused
C22_SettersStoreOrRefuse ==
    result.op \notin {"none", "DefaultOptions", "normalizeURL", "extractLinks"} =>
        StoredOrUntouched /\ BadInputRefused

\* C23: an engine made without an info logger or without an error logger
\* never fails for the want of it
C23_MissingSinkIsHarmless == (~infoLogger \/ ~errorLogger) => spc # "panic"

\* GenerateSitemap has just returned
Generated == result' # result /\ result'.op = "GenerateSitemap"

\* The document is the fallback: one entry, the root of the output domain
IsFallback(xml, baseDomain) ==
    /\ xml.header = HeaderFallback
    /\ Len(xml.URLS) = 1
    /\ xml.URLS[1].Location = baseDomain \o <<"/">>

\* C24: GenerateSitemap returns an error and the fallback document when the
\* pattern does not compile, no error and another document when it does,
\* and leaves the engine as it was
C24_GenerateFailsSafe ==
    [][Generated =>
        /\ result'.err <=> Contains(result'.filterPattern, "(")
        /\ result'.err <=> IsFallback(result'.xml, result'.baseDomain)
        /\ UNCHANGED <<crawlVars, active, spc>>]_vars

\* GenerateSitemap failed while the engine knew links
C24_FailedWithLinks ==
    result.op = "GenerateSitemap" /\ result.err /\ links # EmptyMap /\ cpc = "idle"

\* The known links the pattern does not occur in
Unfiltered(pattern) ==
    {l \in DOMAIN links :
        \A i \in 0..(Len(l) - Len(pattern)) : SubSeq(l, i + 1, i + Len(pattern)) # pattern}

\* The link with the output domain in place of the crawl domain
Rebased(l, baseDomain) == baseDomain \o SubSeq(l, Len(domain) + 1, Len(l))

\* C25: a sitemap generated without error lists each known link the
\* pattern does not match once, rebased on the output domain, and no other
C25_SitemapListsUnfiltered ==
    [][(Generated /\ ~result'.err) =>
        /\ Len(result'.xml.URLS) = Cardinality(Unfiltered(result'.filterPattern))
        /\ {result'.xml.URLS[i].Location : i \in DOMAIN result'.xml.URLS}
             = {Rebased(l, result'.baseDomain) : l \in Unfiltered(result'.filterPattern)}]_vars

\* A sitemap on another domain that lists some of the known links and
\* leaves some out
C25_SomeListedSomeFiltered ==
    /\ result.op = "GenerateSitemap" /\ ~result.err
    /\ result.baseDomain # domain
    /\ Len(result.xml.URLS) = 2
    /\ Cardinality(DOMAIN links) = 3

\* C26: a link that was known two crawls ago, was dropped by the crawl
\* before this one and is found again with the same checksum keeps the
\* lastChanged it had two crawls ago
C26_HistorySurvivesGap ==
    [][(active' < active) =>
        \A l \in DOMAIN links' :
            (/\ l \in DOMAIN earlier
             /\ l \notin DOMAIN published
             /\ links'[l].checksum = earlier[l].checksum)
                => links'[l].lastChanged = earlier[l].lastChanged]_vars

\* C27: RecrawlSite returns only in a step in which the goroutine, waiting
\* in its select with no crawl running, takes the signal and enters crawl;
\* each such step takes the signal of one caller, the goroutine enters a
\* manual crawl in no other way, and it leaves the call of crawl only when
\* that crawl has returned
C27_RecrawlIsRendezvous ==
    /\ [][\A c \in Callers :
            (callers[c] = "sending" /\ callers'[c] = "idle") =>
                /\ spc = "select" /\ cpc = "idle" /\ ~mutex /\ active = 0
                /\ spc' = "manual" /\ active' = 1
                /\ Taken = {c}]_vars
    /\ [][(spc # "manual" /\ spc' = "manual") => Cardinality(Taken) = 1]_vars
    /\ [][(spc = "manual" /\ clock' # clock) =>
            (cpc = "idle" /\ clock' = clock + 1)]_vars
    /\ [][(spc = "manual" /\ spc' # "manual") =>
            /\ spc' = "callback" /\ cpc' = "idle" /\ active' = 0
            /\ cpc = "loop" \/ clock' = clock + 1]_vars

\* A call made while a crawl was running is still blocked, and the call of
\* another caller has just been accepted
C27_OneAcceptedOneWaiting ==
    /\ spc = "manual" /\ cpc = "idle"
    /\ \E c \in during : callers[c] = "sending"
    /\ \E c \in Callers : callers[c] = "idle"

\* C28: while the callback runs no crawl is running and the lock is free,
\* so a getLinks made from it returns at once, and returns what the crawl
\* before the callback published
C28_CallbackBetweenCycles ==
    /\ [](spc = "callback" =>
            /\ cpc = "idle" /\ ~mutex /\ active = 0
            /\ links = published
            /\ \A r \in Readers : readers[r] = "locking" => ENABLED GetLinksReturn(r))
    /\ [][\A r \in Readers :
            (spc = "callback" /\ readers[r] = "locking" /\ readers'[r] = "done")
                => snapshot'[r] = published]_vars

\* A getLinks made from the callback after the second crawl returned the
\* links of that crawl, which differ from those of the first
C28_ReadInCallback ==
    /\ spc = "callback"
    /\ \E r \in Readers : readers[r] = "done" /\ snapshot[r] = published
    /\ published # earlier /\ published # EmptyMap /\ earlier # EmptyMap

\* The path net/url reads in the text; empty when the text does not parse
PathOf(text) == Parse(text).url.Path

\* The path of the text names a file with an extension or ends in a slash
IsComplete(text) == Contains(PathOf(text), ".") \/ HasSuffix(PathOf(text), <<"/">>)

\* ensureTrailingSlash returns its own result unchanged
SlashIdempotent == ensureTrailingSlash(result.url) = result.url

\* ensureTrailingSlash returns a text whose path is complete as it was given
CompleteUntouched == IsComplete(href) => result.url = href

\* C29: ensureTrailingSlash is idempotent, and it returns unchanged a URL
\* whose path has an extension or a trailing slash
C29_TrailingSlashOnce ==
    result.op = "ensureTrailingSlash" => (SlashIdempotent /\ CompleteUntouched)

====
